---- MODULE Spec2Model ----
(***************************************************************************)
(* A model of gaussian-histogram (src/src/main.rs): the histogram          *)
(* transform of one RGB image (transform_histogram), and the writing of    *)
(* its two results (_main).                                                *)
(*                                                                         *)
(* Three specifications share the definitions:                             *)
(*   Spec     the whole run on a small image, each closure one step;       *)
(*   SpecPar  transform_histogram on a smaller image, each unit of work of *)
(*            its parallel loops one step;                                 *)
(*   SpecFn   the closure of one channel, and the per-pixel maps of a      *)
(*            large image, applied as functions to drawn arguments.        *)
(*                                                                         *)
(* Floating point.  The program computes in f64 and stores the forward     *)
(* image as f32.  A float is modelled as a pair <<m, e>> that stands for   *)
(* m * 2^e, with m = 0 or 2^(MantBits-1) <= |m| < 2^MantBits.  MantBits is *)
(* 30, the widest significand whose sums stay inside TLC's 32-bit          *)
(* integers; it is wider than the 24 bits of an f32, so the rounding of    *)
(* `as f32` is modelled at its real width.  erf and inverf are computed    *)
(* from their series, to about 1e-8.                                       *)
(***************************************************************************)
EXTENDS Integers, Sequences, FiniteSets, TLC

\* ------------------------------------------------------------------------
\* Bounds
\* ------------------------------------------------------------------------

\* Spec: images of at most MaxN pixels, red intensities 0..MaxVal.
MaxN == 4

MaxVal == 1

\* SpecPar: images of at most ParN pixels.
ParN == 2

\* SpecFn: channels of at most FnN samples, intensities 0..FnVal.
FnN == 4

FnVal == 2

\* SpecFn: a large image of ProbeW x ProbeH pixels, observed at the ProbeSpan
\* ranks on either side of the median rank and at a few LUT indices.
ProbeW == 4096

ProbeH == 4096

ProbeSpan == 12

\* ------------------------------------------------------------------------
\* Floats
\* ------------------------------------------------------------------------

\* Significand bits carried for an f64 value.
MantBits == 30

\* Significand bits of an f32 (`g as f32`).
F32Bits == 24

\* The significand of pi, pi = PiMant * 2^(-28)  (erf's 2/sqrt(pi)).
PiMant == 843314857

\* The terms of the series of erf and of exp that are summed.
ErfTerms == 32

ExpTerms == 16

Pow2(k) == 2^k

MantLo == Pow2(MantBits - 1)

MantHi == Pow2(MantBits)

HalfBase == Pow2(MantBits \div 2)

Abs(x) == IF x < 0 THEN -x ELSE x

Sgn(x) == IF x < 0 THEN -1 ELSE IF x = 0 THEN 0 ELSE 1

FZero == <<0, 0>>

FOne == <<MantLo, 1 - MantBits>>

FTwo == <<MantLo, 2 - MantBits>>

FHalf == <<MantLo, -MantBits>>

FNeg(a) == <<-a[1], a[2]>>

FAbs(a) == <<Abs(a[1]), a[2]>>

\* q + r / (2 h) rounded to the nearest integer, ties to even.
RoundQR(q, r, h) == IF r > h \/ (r = h /\ q % 2 = 1) THEN q + 1 ELSE q

\* n / 2^k rounded to the nearest integer, ties to even (n >= 0).
RoundShift(n, k) ==
    IF k = 0 THEN n ELSE RoundQR(n \div Pow2(k), n % Pow2(k), Pow2(k - 1))

\* How many times 0 < m < 2^MantBits is doubled to become normal.
Doublings(m) ==
    Cardinality({ k \in 0..(MantBits - 2) : m < Pow2(MantBits - 1 - k) })

\* <<m, e>> with m doubled k times.
ShiftBy(m, e, k) == <<m * Pow2(k), e - k>>

\* <<q, e + 1>>, or the next power of two when rounding carried.
Carry(q, e) == IF q >= MantHi THEN <<MantLo, e + 2>> ELSE <<q, e + 1>>

\* The float nearest to m * 2^e, for an integer 0 < m < 2^(MantBits+1).
NormPos(m, e) ==
    IF m >= MantHi THEN Carry(RoundShift(m, 1), e)
    ELSE ShiftBy(m, e, Doublings(m))

\* The float nearest to m * 2^e, for an integer |m| < 2^(MantBits+1).
Norm(m, e) ==
    IF m = 0 THEN FZero
    ELSE IF m < 0 THEN FNeg(NormPos(-m, e))
    ELSE NormPos(m, e)

\* `n as f64`
FromInt(n) == Norm(n, 0)

\* a < b, for a # b
LtSigned(sa, sb, a, b) ==
    IF sa # sb THEN sa < sb
    ELSE IF sa > 0
         THEN a[2] < b[2] \/ (a[2] = b[2] /\ a[1] < b[1])
         ELSE a[2] > b[2] \/ (a[2] = b[2] /\ a[1] < b[1])

\* a < b
FLt(a, b) == IF a = b THEN FALSE ELSE LtSigned(Sgn(a[1]), Sgn(b[1]), a, b)

\* a <= b
FLe(a, b) == IF a = b THEN TRUE ELSE LtSigned(Sgn(a[1]), Sgn(b[1]), a, b)

\* a + b, where neither is zero and a has the larger exponent.
AddAligned(a, b) ==
    IF a[2] - b[2] > MantBits THEN a
    ELSE Norm(a[1] + Sgn(b[1]) * RoundShift(Abs(b[1]), a[2] - b[2]), a[2])

\* a + b
FAdd(a, b) ==
    IF a = FZero THEN b
    ELSE IF b = FZero THEN a
    ELSE IF a[2] >= b[2] THEN AddAligned(a, b)
    ELSE AddAligned(b, a)

\* a - b
FSub(a, b) == IF b = FZero THEN a ELSE FAdd(a, <<-b[1], b[2]>>)

\* The product hi * 2^MantBits + rest as <<significand, exponent>>.
MulRound(hi, rest) ==
    IF hi >= MantLo
    THEN <<hi + (IF rest >= MantLo THEN 1 ELSE 0), MantBits>>
    ELSE <<2 * hi + rest \div MantLo, MantBits - 1>>

MulHiLo(h, low) == MulRound(h + low \div MantHi, low % MantHi)

MulSum(hh, mid, ll) ==
    MulHiLo(hh + mid \div HalfBase, (mid % HalfBase) * HalfBase + ll)

\* The product of two significands, multiplied in halves of MantBits/2 bits.
MulMant(ma, mb) ==
    MulSum((ma \div HalfBase) * (mb \div HalfBase),
           (ma \div HalfBase) * (mb % HalfBase)
             + (ma % HalfBase) * (mb \div HalfBase),
           (ma % HalfBase) * (mb % HalfBase))

MulPack(s, p, e) == Norm(s * p[1], e + p[2])

\* a * b
FMul(a, b) ==
    IF a = FZero THEN FZero
    ELSE IF b = FZero THEN FZero
    ELSE MulPack(Sgn(a[1]) * Sgn(b[1]), MulMant(Abs(a[1]), Abs(b[1])),
                 a[2] + b[2])

\* <<q, rem>> with rem = r * HalfBase - q * d, for the estimate q of a digit
\* of the quotient, lowered until rem is not negative (twice at most).
DivFix(q, rem, d) ==
    IF rem >= 0 THEN <<q, rem>>
    ELSE IF rem + d >= 0 THEN <<q - 1, rem + d>>
    ELSE <<q - 2, rem + 2 * d>>

DivEstimate(r, d, q) ==
    DivFix(q, (r - q * (d \div HalfBase)) * HalfBase - q * (d % HalfBase), d)

\* One digit, of MantBits/2 bits, of a long division by the significand d:
\* <<r * HalfBase \div d, r * HalfBase % d>>, for 0 <= r < d.
DivDigit(r, d) ==
    DivEstimate(r, d,
        IF r \div (d \div HalfBase) >= HalfBase THEN HalfBase - 1
        ELSE r \div (d \div HalfBase))

DivLow(hi, d1, d) == (hi * HalfBase + d1[1]) * HalfBase + DivDigit(d1[2], d)[1]

\* a * 2^MantBits \div d, for two significands a and d.
DivMant(a, d) == DivLow(a \div d, DivDigit(a % d, d), d)

\* a / b  (b # 0)
FDiv(a, b) ==
    IF a = FZero THEN FZero
    ELSE Norm(Sgn(a[1]) * Sgn(b[1]) * DivMant(Abs(a[1]), Abs(b[1])),
              a[2] - b[2] - MantBits)

RECURSIVE SqrtIter(_, _)
\* Newton's iteration for sqrt(a) from above, until it stops decreasing.
SqrtNext(a, x, y) == IF FLt(y, x) THEN SqrtIter(a, y) ELSE x

SqrtIter(a, x) == SqrtNext(a, x, FMul(FHalf, FAdd(x, FDiv(a, x))))

\* f64::sqrt  (a > 0)
FSqrt(a) == SqrtIter(a, IF FLt(a, FOne) THEN FOne ELSE a)

\* f64::floor followed by `as usize`, for 0 <= a < 2^31.
FloorToInt(a) ==
    IF a[1] <= 0 THEN 0
    ELSE IF a[2] >= 0 THEN a[1] * Pow2(a[2])
    ELSE IF -a[2] > MantBits THEN 0
    ELSE a[1] \div Pow2(-a[2])

\* `as f32`: the significand rounded to F32Bits bits, ties to even.
AsF32(a) ==
    IF a = FZero THEN FZero
    ELSE Norm(Sgn(a[1]) * RoundShift(Abs(a[1]), MantBits - F32Bits),
              a[2] + MantBits - F32Bits)

\* ------------------------------------------------------------------------
\* erf and inverf (puruspe), cdf and inv_cdf
\* ------------------------------------------------------------------------

FPi == <<PiMant, -28>>

\* 2 / sqrt(pi), the derivative of erf at 0
TwoOverSqrtPi == FDiv(FTwo, FSqrt(FPi))

\* A stretch lo..hi-1 of a power series is a pair <<p, s>>: with r(k) the
\* ratio of term k to term k-1, p is r(lo+1) * ... * r(hi) and s is the sum
\* over n in lo..hi-1 of c(n) * r(lo+1) * ... * r(n).  Two adjoining
\* stretches, neither equal to the other, join into one.
SeriesJoin(l, r) ==
    IF l = r THEN l
    ELSE <<FMul(l[1], r[1]), FAdd(l[2], FMul(l[1], r[2]))>>

RECURSIVE ErfSeries(_, _, _)
\* erf(z) / (z * 2/sqrt(pi)) is the sum over n of (-z^2)^n / (n! (2n+1)):
\* r(k) = -z^2 / k, c(n) = 1 / (2n+1); z2 = z^2.
ErfSeries(z2, lo, hi) ==
    IF hi = lo + 1
    THEN <<FNeg(FDiv(z2, FromInt(lo + 1))), FDiv(FOne, FromInt(2 * lo + 1))>>
    ELSE SeriesJoin(ErfSeries(z2, lo, (lo + hi) \div 2),
                    ErfSeries(z2, (lo + hi) \div 2, hi))

\* puruspe::erf, for |z| < 3: the terms after the first ErfTerms are below
\* the precision carried.
erf(z) ==
    IF z = FZero THEN FZero
    ELSE FMul(FMul(TwoOverSqrtPi, z), ErfSeries(FMul(z, z), 0, ErfTerms)[2])

RECURSIVE ExpSeries(_, _, _)
\* e^z is the sum over n of z^n / n!: r(k) = z / k, c(n) = 1.
ExpSeries(z, lo, hi) ==
    IF hi = lo + 1
    THEN <<FDiv(z, FromInt(lo + 1)), FOne>>
    ELSE SeriesJoin(ExpSeries(z, lo, (lo + hi) \div 2),
                    ExpSeries(z, (lo + hi) \div 2, hi))

\* e^z, for |z| < 2
FExp(z) == ExpSeries(z, 0, ExpTerms)[2]

\* One step of Newton's iteration for erf(z) = y.
InverfStep(y, z) ==
    FSub(z, FDiv(FSub(erf(z), y),
                 FMul(TwoOverSqrtPi, FExp(FNeg(FMul(z, z))))))

RECURSIVE InverfIter(_, _)
InverfNext(y, z, next) == IF FLt(z, next) THEN InverfIter(y, next) ELSE z

\* Newton's iteration for erf(z) = y, 0 < y < 1, from below: erf is concave
\* on z >= 0, so the iterates rise to the root; it ends when they stop rising.
InverfIter(y, z) == InverfNext(y, z, InverfStep(y, z))

\* inverf(y) for 0 < y: at the end of its domain, y >= 1, puruspe returns 100.
InverfPos(y) ==
    IF FLe(FOne, y) THEN FromInt(100)
    ELSE InverfIter(y, FDiv(y, TwoOverSqrtPi))

\* puruspe::inverf: odd in y
inverf(y) ==
    IF y = FZero THEN FZero
    ELSE IF y[1] < 0 THEN FNeg(InverfPos(FNeg(y)))
    ELSE InverfPos(y)

GAUSSIAN_AVERAGE == FHalf

GAUSSIAN_STD == FSqrt(FDiv(FOne, FromInt(36)))

\* 2.0_f64.sqrt()
Sqrt2 == FSqrt(FTwo)

\* A faulty cdf, without the factor 0.5: its values reach 2.
cdfNoHalf(v, mu, sigma) ==
    FAdd(FOne, erf(FDiv(FSub(v, mu), FMul(sigma, Sqrt2))))

cdf(v, mu, sigma) ==
    FMul(FHalf, FAdd(FOne, erf(FDiv(FSub(v, mu), FMul(sigma, Sqrt2)))))

inv_cdf(u, mu, sigma) ==
    FAdd(FMul(FMul(sigma, Sqrt2), inverf(FSub(FMul(FTwo, u), FOne))), mu)

\* ------------------------------------------------------------------------
\* Arrays (Vec): functions on 0..n-1
\* ------------------------------------------------------------------------

VecLen(a) == Cardinality(DOMAIN a)

\* vec![v; n]
Filled(n, v) == [i \in 0..(n - 1) |-> v]

\* Whether keys, read in the order p, do not decrease.
KeysAscend(keys, p) ==
    \A k \in 0..(VecLen(keys) - 2) : keys[p[k]] <= keys[p[k + 1]]

\* par_sort_unstable_by_key, where keys[k] is the key of arr[k]: every order
\* of arr whose keys do not decrease.  The sort is unstable, so elements with
\* equal keys may end in any order.
SortOutcomes(arr, keys) ==
    { [k \in DOMAIN arr |-> arr[p[k]]] :
        p \in { q \in Permutations(DOMAIN arr) : KeysAscend(keys, q) } }

\* ------------------------------------------------------------------------
\* One channel's closure of transform_histogram
\* ------------------------------------------------------------------------

\* inp.clone().into_iter().enumerate(): pairs <<subpx_idx, val>>
Enumerated(inpc) == [i \in DOMAIN inpc |-> <<i, inpc[i]>>]

\* A faulty sort key: the intensities in descending order.
ValKeyDescending(pair) == -pair[2]

ValKey(pair) == pair[2]

\* input_sorted after par_sort_unstable_by_key(|(_, val)| *val)
SortedOutcomes(inpc) ==
    SortOutcomes(Enumerated(inpc),
                 [k \in DOMAIN inpc |-> ValKey(Enumerated(inpc)[k])])

\* input_sorted.enumerate().map(ChannelPixel { subpx_idx, sort_idx })
ToChannelPixels(sorted) ==
    [k \in DOMAIN sorted |-> [subpx_idx |-> sorted[k][1], sort_idx |-> k]]

\* A faulty second sort: input_orig_order is left in sorted order.
NoSecondSort(sorted) == { ToChannelPixels(sorted) }

SubpxKey(pixel) == pixel.subpx_idx

\* input_orig_order after par_sort_unstable_by_key(|pixel| pixel.subpx_idx)
OrigOrderOutcomes(sorted) ==
    SortOutcomes(ToChannelPixels(sorted),
                 [k \in DOMAIN sorted |-> SubpxKey(ToChannelPixels(sorted)[k])])

\* A faulty normalised rank, without the offset 0.5.
NormRankNoHalf(sort_idx, n) == FDiv(FromInt(sort_idx), FromInt(n))

\* u = (sort_idx as f64 + 0.5) / (input_sorted.len() as f64)
NormRank(sort_idx, n) == FDiv(FAdd(FromInt(sort_idx), FHalf), FromInt(n))

\* *subpx = inv_cdf(u, GAUSSIAN_AVERAGE, *GAUSSIAN_STD) as f32
ForwardCalc(sort_idx, n) ==
    AsF32(inv_cdf(NormRank(sort_idx, n), GAUSSIAN_AVERAGE, GAUSSIAN_STD))

\* A faulty grid, read from its far end: u falls as i rises.
GridCdfFlipped(i, width) ==
    cdf(FDiv(FAdd(FromInt(width - 1 - i), FHalf), FromInt(width)),
        GAUSSIAN_AVERAGE, GAUSSIAN_STD)

\* u = cdf((i as f64 + 0.5) / (input.width() as f64), ...)
GridCdfCalc(i, width) ==
    cdf(FDiv(FAdd(FromInt(i), FHalf), FromInt(width)),
        GAUSSIAN_AVERAGE, GAUSSIAN_STD)

\* The sample counts and widths of the images the specifications draw.
SmallN == (1..MaxN) \cup (1..ParN) \cup (1..FnN)

\* ForwardCalc and GridCdfCalc of the small images, computed once.
ForwardMemo == [n \in SmallN |-> [r \in 0..(n - 1) |-> ForwardCalc(r, n)]]

GridCdfMemo == [w \in SmallN |-> [i \in 0..(w - 1) |-> GridCdfCalc(i, w)]]

Forward(sort_idx, n) ==
    IF n \in SmallN /\ sort_idx \in 0..(n - 1)
    THEN ForwardMemo[n][sort_idx]
    ELSE ForwardCalc(sort_idx, n)

GridCdf(i, width) ==
    IF width \in SmallN /\ i \in 0..(width - 1)
    THEN GridCdfMemo[width][i]
    ELSE GridCdfCalc(i, width)

\* index = (u * input_sorted.len() as f64).floor() as usize
LutIndex(i, width, n) == FloorToInt(FMul(GridCdf(i, width), FromInt(n)))

\* What the closure leaves, given its two sorted arrays and the indices idx
\* its LUT loop reads: input_sorted[index] with index >= len panics.
ChannelResult(s, o, idx) ==
    [ input_sorted     |-> s,
      input_orig_order |-> o,
      u     |-> [i \in DOMAIN o |-> NormRank(o[i].sort_idx, VecLen(s))],
      t     |-> [i \in DOMAIN o |-> Forward(o[i].sort_idx, VecLen(s))],
      index |-> idx,
      t_inv |-> [k \in DOMAIN idx |->
                   IF idx[k] < VecLen(s) THEN s[idx[k]][2] ELSE 0],
      panic |-> \E k \in DOMAIN idx : idx[k] >= VecLen(s) ]

\* Every result of the closure for a channel with samples inpc and an image
\* of the given width: the two sorts, the forward loop over t and the LUT
\* loop over t_inv.
ChannelRun(inpc, width) ==
    UNION { { ChannelResult(s, o,
                  [k \in 0..(width - 1) |-> LutIndex(k, width, VecLen(s))]) :
              o \in OrigOrderOutcomes(s) } :
            s \in SortedOutcomes(inpc) }

\* ------------------------------------------------------------------------
\* State
\* ------------------------------------------------------------------------

VARIABLES
    W, H,              \* input.width(), input.height()
    input,             \* input.pixels(): the pixels in row-major order
    pc,                \* where _main is
    inp,               \* input_r, input_g, input_b
    t,                 \* t_r, t_g, t_b
    t_inv,             \* t_inv_r, t_inv_g, t_inv_b
    input_sorted,      \* each channel closure's input_sorted
    input_orig_order,  \* each channel closure's input_orig_order
    index,             \* the index each LUT unit read at (-1: none yet)
    cpc,               \* where each channel closure is
    fwdDone, lutDone,  \* the units of the two loops of a closure that have run
    out_img, lut,      \* the two results of transform_histogram
    ipc,               \* where the two closures of the final rayon::join are
    imgDone, lutChunks,\* the chunks of out_img and of lut that are written
    wpc,               \* where the two write_rgb calls are
    fs,                \* the two output files
    result,            \* what _main returns
    fnIn, fnOut        \* SpecFn: the arguments and the result of a function

vars == << W, H, input, pc, inp, t, t_inv, input_sorted, input_orig_order,
           index, cpc, fwdDone, lutDone, out_img, lut, ipc, imgDone, lutChunks,
           wpc, fs, result, fnIn, fnOut >>

\* px[0], px[1], px[2]
Chan == 0..2

\* the image file and the LUT file
Files == {"img", "lut"}

NoFn == [kind |-> "none"]

\* The images of w x h pixels: red is any intensity 0..MaxVal; green rises
\* and blue falls with the pixel's position.
Images(w, h) ==
    { [i \in 0..(w * h - 1) |->
         [c \in Chan |-> IF c = 0 THEN v[i]
                         ELSE IF c = 1 THEN i ELSE w * h - 1 - i]] :
      v \in [0..(w * h - 1) -> 0..MaxVal] }

\* The dimensions <<width, height>> of the images of at most maxn pixels, a
\* dimension of zero included.
Dims(maxn) ==
    { d \in (0..maxn) \X (0..maxn) : d[1] * d[2] <= maxn }

\* _main has opened an image of at most maxn pixels.
InitRun(maxn) ==
    /\ \E d \in Dims(maxn) :
          /\ W = d[1]
          /\ H = d[2]
          /\ input \in Images(d[1], d[2])
    /\ pc = "start"
    /\ inp = [c \in Chan |-> << >>]
    /\ t = [c \in Chan |-> << >>]
    /\ t_inv = [c \in Chan |-> << >>]
    /\ input_sorted = [c \in Chan |-> << >>]
    /\ input_orig_order = [c \in Chan |-> << >>]
    /\ index = [c \in Chan |-> << >>]
    /\ cpc = [c \in Chan |-> "idle"]
    /\ fwdDone = [c \in Chan |-> {}]
    /\ lutDone = [c \in Chan |-> {}]
    /\ out_img = << >>
    /\ lut = << >>
    /\ ipc = [f \in Files |-> "idle"]
    /\ imgDone = {}
    /\ lutChunks = {}
    /\ wpc = [f \in Files |-> "start"]
    /\ fs = [f \in Files |-> "absent"]
    /\ result = "none"
    /\ fnIn = NoFn
    /\ fnOut = NoFn

Init == InitRun(MaxN)

\* ------------------------------------------------------------------------
\* transform_histogram
\* ------------------------------------------------------------------------

\* The allocations and the extraction of the three channels.
Extract ==
    /\ pc = "start"
    /\ pc' = "channels"
    /\ t' = [c \in Chan |-> Filled(W * H, FZero)]
    /\ t_inv' = [c \in Chan |-> Filled(W, 0)]
    /\ index' = [c \in Chan |-> Filled(W, -1)]
    /\ inp' = [c \in Chan |-> [i \in 0..(W * H - 1) |-> input[i][c]]]
    /\ UNCHANGED << W, H, input, input_sorted, input_orig_order, cpc, fwdDone,
                    lutDone, out_img, lut, ipc, imgDone, lutChunks, wpc, fs,
                    result, fnIn, fnOut >>

\* The closure of channel c, from its start to its end or its panic.
ChannelTask(c) ==
    /\ pc = "channels"
    /\ cpc[c] = "idle"
    /\ \E r \in ChannelRun(inp[c], W) :
          /\ input_sorted' = [input_sorted EXCEPT ![c] = r.input_sorted]
          /\ input_orig_order' =
                 [input_orig_order EXCEPT ![c] = r.input_orig_order]
          /\ t' = [t EXCEPT ![c] = r.t]
          /\ fwdDone' = [fwdDone EXCEPT ![c] = DOMAIN r.t]
          /\ index' = [index EXCEPT ![c] = r.index]
          /\ IF r.panic
             THEN /\ cpc' = [cpc EXCEPT ![c] = "panic"]
                  /\ UNCHANGED << t_inv, lutDone >>
             ELSE /\ cpc' = [cpc EXCEPT ![c] = "done"]
                  /\ t_inv' = [t_inv EXCEPT ![c] = r.t_inv]
                  /\ lutDone' = [lutDone EXCEPT ![c] = DOMAIN r.t_inv]
    /\ UNCHANGED << W, H, input, pc, inp, out_img, lut, ipc, imgDone,
                    lutChunks, wpc, fs, result, fnIn, fnOut >>

\* for_each returns once the three closures have ended.
JoinChannels ==
    /\ pc = "channels"
    /\ \A c \in Chan : cpc[c] = "done"
    /\ pc' = "interleave"
    /\ UNCHANGED << W, H, input, inp, t, t_inv, input_sorted,
                    input_orig_order, index, cpc, fwdDone, lutDone, out_img,
                    lut, ipc, imgDone, lutChunks, wpc, fs, result, fnIn,
                    fnOut >>

\* A closure's panic leaves for_each, transform_histogram and _main.
PanicChannels ==
    /\ pc = "channels"
    /\ \E c \in Chan : cpc[c] = "panic"
    /\ pc' = "panic"
    /\ UNCHANGED << W, H, input, inp, t, t_inv, input_sorted,
                    input_orig_order, index, cpc, fwdDone, lutDone, out_img,
                    lut, ipc, imgDone, lutChunks, wpc, fs, result, fnIn,
                    fnOut >>

\* A faulty chunk: red and green change places.
ChunkWriteSwapped(buf, i, a) ==
    [buf EXCEPT ![3 * i] = a[1][i], ![3 * i + 1] = a[0][i],
                ![3 * i + 2] = a[2][i]]

\* One unit of par_chunks_mut(3).enumerate().for_each: chunk i of buf gets
\* the i-th value of the red, green and blue array.
ChunkWrite(buf, i, a) ==
    [buf EXCEPT ![3 * i] = a[0][i], ![3 * i + 1] = a[1][i],
                ![3 * i + 2] = a[2][i]]

RECURSIVE ChunkLoop(_, _, _)
\* The chunks 0..n-1 of buf, all written.
ChunkLoop(buf, n, a) ==
    IF n = 0 THEN buf ELSE ChunkWrite(ChunkLoop(buf, n - 1, a), n - 1, a)

\* The first closure of rayon::join: out_img.
InterleaveImg ==
    /\ pc = "interleave"
    /\ ipc["img"] = "idle"
    /\ out_img' = ChunkLoop(Filled(W * H * 3, FZero), W * H, t)
    /\ imgDone' = 0..(W * H - 1)
    /\ ipc' = [ipc EXCEPT !["img"] = "done"]
    /\ UNCHANGED << W, H, input, pc, inp, t, t_inv, input_sorted,
                    input_orig_order, index, cpc, fwdDone, lutDone, lut,
                    lutChunks, wpc, fs, result, fnIn, fnOut >>

\* The second closure of rayon::join: lut.
InterleaveLut ==
    /\ pc = "interleave"
    /\ ipc["lut"] = "idle"
    /\ lut' = ChunkLoop(Filled(W * 3, 0), W, t_inv)
    /\ lutChunks' = 0..(W - 1)
    /\ ipc' = [ipc EXCEPT !["lut"] = "done"]
    /\ UNCHANGED << W, H, input, pc, inp, t, t_inv, input_sorted,
                    input_orig_order, index, cpc, fwdDone, lutDone, out_img,
                    imgDone, wpc, fs, result, fnIn, fnOut >>

\* transform_histogram returns (out_img, lut); its locals are dropped.
Return ==
    /\ pc = "interleave"
    /\ \A f \in Files : ipc[f] = "done"
    /\ pc' = "write"
    /\ inp' = [c \in Chan |-> << >>]
    /\ t' = [c \in Chan |-> << >>]
    /\ t_inv' = [c \in Chan |-> << >>]
    /\ input_sorted' = [c \in Chan |-> << >>]
    /\ input_orig_order' = [c \in Chan |-> << >>]
    /\ index' = [c \in Chan |-> << >>]
    /\ fwdDone' = [c \in Chan |-> {}]
    /\ lutDone' = [c \in Chan |-> {}]
    /\ imgDone' = {}
    /\ lutChunks' = {}
    /\ UNCHANGED << W, H, input, cpc, out_img, lut, ipc, wpc, fs, result,
                    fnIn, fnOut >>

\* ------------------------------------------------------------------------
\* _main: the two write_rgb calls of rayon::join, and res1.and(res2)
\* ------------------------------------------------------------------------

\* File::create(path)?: the file exists and is empty, or the call fails.
CreateFile(f) ==
    /\ pc = "write"
    /\ wpc[f] = "start"
    /\ \/ /\ wpc' = [wpc EXCEPT ![f] = "created"]
          /\ fs' = [fs EXCEPT ![f] = "empty"]
       \/ /\ wpc' = [wpc EXCEPT ![f] = "err"]
          /\ fs' = fs
    /\ UNCHANGED << W, H, input, pc, inp, t, t_inv, input_sorted,
                    input_orig_order, index, cpc, fwdDone, lutDone, out_img,
                    lut, ipc, imgDone, lutChunks, result, fnIn, fnOut >>

\* TiffEncoder::new(&mut file)?.write_image_with_compression(..)?: the image
\* is written, or the encoder fails with part of it in the file.
EncodeFile(f) ==
    /\ pc = "write"
    /\ wpc[f] = "created"
    /\ \/ /\ wpc' = [wpc EXCEPT ![f] = "ok"]
          /\ fs' = [fs EXCEPT ![f] = "complete"]
       \/ /\ wpc' = [wpc EXCEPT ![f] = "err"]
          /\ fs' = [fs EXCEPT ![f] = "partial"]
    /\ UNCHANGED << W, H, input, pc, inp, t, t_inv, input_sorted,
                    input_orig_order, index, cpc, fwdDone, lutDone, out_img,
                    lut, ipc, imgDone, lutChunks, result, fnIn, fnOut >>

\* rayon::join has both results; _main returns res1.and(res2).
Finish ==
    /\ pc = "write"
    /\ \A f \in Files : wpc[f] \in {"ok", "err"}
    /\ result' = IF \A f \in Files : wpc[f] = "ok" THEN "ok" ELSE "err"
    /\ pc' = "exit"
    /\ UNCHANGED << W, H, input, inp, t, t_inv, input_sorted,
                    input_orig_order, index, cpc, fwdDone, lutDone, out_img,
                    lut, ipc, imgDone, lutChunks, wpc, fs, fnIn, fnOut >>

Next ==
    \/ Extract
    \/ \E c \in Chan : ChannelTask(c)
    \/ JoinChannels
    \/ PanicChannels
    \/ InterleaveImg
    \/ InterleaveLut
    \/ Return
    \/ \E f \in Files : CreateFile(f)
    \/ \E f \in Files : EncodeFile(f)
    \/ Finish

Spec == Init /\ [][Next]_vars

\* ------------------------------------------------------------------------
\* SpecPar: transform_histogram, one unit of work of a parallel loop a step
\* ------------------------------------------------------------------------

\* The two sorts of the closure of channel c.
SortStep(c) ==
    /\ pc = "channels"
    /\ cpc[c] = "idle"
    /\ \E s \in SortedOutcomes(inp[c]) :
          \E o \in OrigOrderOutcomes(s) :
             /\ input_sorted' = [input_sorted EXCEPT ![c] = s]
             /\ input_orig_order' = [input_orig_order EXCEPT ![c] = o]
    /\ cpc' = [cpc EXCEPT ![c] = "forward"]
    /\ UNCHANGED << W, H, input, pc, inp, t, t_inv, index, fwdDone, lutDone,
                    out_img, lut, ipc, imgDone, lutChunks, wpc, fs, result,
                    fnIn, fnOut >>

\* A faulty forward unit: it writes the slot of the next unit.
FwdWriteNext(tc, i, o, n) ==
    [tc EXCEPT ![(i + 1) % n] = Forward(o[i].sort_idx, n)]

\* The body of t.par_iter_mut().enumerate().for_each for the pair (i, subpx):
\* tc with its slot i written.
FwdWrite(tc, i, o, n) == [tc EXCEPT ![i] = Forward(o[i].sort_idx, n)]

\* One unit of the forward loop of channel c.
FwdUnit(c, i) ==
    /\ pc = "channels"
    /\ cpc[c] = "forward"
    /\ i \notin fwdDone[c]
    /\ t' = [t EXCEPT ![c] = FwdWrite(t[c], i, input_orig_order[c],
                                      VecLen(input_sorted[c]))]
    /\ fwdDone' = [fwdDone EXCEPT ![c] = @ \cup {i}]
    /\ UNCHANGED << W, H, input, pc, inp, t_inv, input_sorted,
                    input_orig_order, index, cpc, lutDone, out_img, lut, ipc,
                    imgDone, lutChunks, wpc, fs, result, fnIn, fnOut >>

\* The forward loop of channel c has run all its units.
FwdEnd(c) ==
    /\ pc = "channels"
    /\ cpc[c] = "forward"
    /\ fwdDone[c] = DOMAIN t[c]
    /\ cpc' = [cpc EXCEPT ![c] = "lut"]
    /\ UNCHANGED << W, H, input, pc, inp, t, t_inv, input_sorted,
                    input_orig_order, index, fwdDone, lutDone, out_img, lut,
                    ipc, imgDone, lutChunks, wpc, fs, result, fnIn, fnOut >>

\* The body of t_inv.par_iter_mut().enumerate().for_each for the pair
\* (k, subpx), once input_sorted[idx] is read: tinvc with its slot k written.
LutWrite(tinvc, k, s, idx) == [tinvc EXCEPT ![k] = s[idx][2]]

\* One unit of the LUT loop of channel c: it panics when its index is not
\* one of input_sorted.
LutUnit(c, k) ==
    /\ pc = "channels"
    /\ cpc[c] = "lut"
    /\ k \notin lutDone[c]
    /\ index' = [index EXCEPT ![c][k] =
                    LutIndex(k, W, VecLen(input_sorted[c]))]
    /\ IF LutIndex(k, W, VecLen(input_sorted[c])) < VecLen(input_sorted[c])
       THEN /\ t_inv' = [t_inv EXCEPT ![c] =
                           LutWrite(t_inv[c], k, input_sorted[c],
                               LutIndex(k, W, VecLen(input_sorted[c])))]
            /\ lutDone' = [lutDone EXCEPT ![c] = @ \cup {k}]
            /\ cpc' = cpc
       ELSE /\ cpc' = [cpc EXCEPT ![c] = "panic"]
            /\ UNCHANGED << t_inv, lutDone >>
    /\ UNCHANGED << W, H, input, pc, inp, t, input_sorted, input_orig_order,
                    fwdDone, out_img, lut, ipc, imgDone, lutChunks, wpc, fs,
                    result, fnIn, fnOut >>

\* The LUT loop of channel c has run all its units: the closure ends.
LutEnd(c) ==
    /\ pc = "channels"
    /\ cpc[c] = "lut"
    /\ lutDone[c] = DOMAIN t_inv[c]
    /\ cpc' = [cpc EXCEPT ![c] = "done"]
    /\ UNCHANGED << W, H, input, pc, inp, t, t_inv, input_sorted,
                    input_orig_order, index, fwdDone, lutDone, out_img, lut,
                    ipc, imgDone, lutChunks, wpc, fs, result, fnIn, fnOut >>

\* let mut out_img = vec![0.0; width * height * 3]
ImgAlloc ==
    /\ pc = "interleave"
    /\ ipc["img"] = "idle"
    /\ out_img' = Filled(W * H * 3, FZero)
    /\ ipc' = [ipc EXCEPT !["img"] = "run"]
    /\ UNCHANGED << W, H, input, pc, inp, t, t_inv, input_sorted,
                    input_orig_order, index, cpc, fwdDone, lutDone, lut,
                    imgDone, lutChunks, wpc, fs, result, fnIn, fnOut >>

\* One unit of out_img.par_chunks_mut(3).enumerate().for_each.
ImgChunk(i) ==
    /\ pc = "interleave"
    /\ ipc["img"] = "run"
    /\ i \notin imgDone
    /\ out_img' = ChunkWrite(out_img, i, t)
    /\ imgDone' = imgDone \cup {i}
    /\ UNCHANGED << W, H, input, pc, inp, t, t_inv, input_sorted,
                    input_orig_order, index, cpc, fwdDone, lutDone, lut, ipc,
                    lutChunks, wpc, fs, result, fnIn, fnOut >>

\* The first closure of rayon::join ends.
ImgEnd ==
    /\ pc = "interleave"
    /\ ipc["img"] = "run"
    /\ imgDone = 0..(W * H - 1)
    /\ ipc' = [ipc EXCEPT !["img"] = "done"]
    /\ UNCHANGED << W, H, input, pc, inp, t, t_inv, input_sorted,
                    input_orig_order, index, cpc, fwdDone, lutDone, out_img,
                    lut, imgDone, lutChunks, wpc, fs, result, fnIn, fnOut >>

\* let mut lut = vec![0; width * 3]
LutAlloc ==
    /\ pc = "interleave"
    /\ ipc["lut"] = "idle"
    /\ lut' = Filled(W * 3, 0)
    /\ ipc' = [ipc EXCEPT !["lut"] = "run"]
    /\ UNCHANGED << W, H, input, pc, inp, t, t_inv, input_sorted,
                    input_orig_order, index, cpc, fwdDone, lutDone, out_img,
                    imgDone, lutChunks, wpc, fs, result, fnIn, fnOut >>

\* One unit of lut.par_chunks_mut(3).enumerate().for_each.
LutChunk(k) ==
    /\ pc = "interleave"
    /\ ipc["lut"] = "run"
    /\ k \notin lutChunks
    /\ lut' = ChunkWrite(lut, k, t_inv)
    /\ lutChunks' = lutChunks \cup {k}
    /\ UNCHANGED << W, H, input, pc, inp, t, t_inv, input_sorted,
                    input_orig_order, index, cpc, fwdDone, lutDone, out_img,
                    ipc, imgDone, wpc, fs, result, fnIn, fnOut >>

\* The second closure of rayon::join ends.
LutBufEnd ==
    /\ pc = "interleave"
    /\ ipc["lut"] = "run"
    /\ lutChunks = 0..(W - 1)
    /\ ipc' = [ipc EXCEPT !["lut"] = "done"]
    /\ UNCHANGED << W, H, input, pc, inp, t, t_inv, input_sorted,
                    input_orig_order, index, cpc, fwdDone, lutDone, out_img,
                    lut, imgDone, lutChunks, wpc, fs, result, fnIn, fnOut >>

InitPar == InitRun(ParN)

NextPar ==
    \/ Extract
    \/ \E c \in Chan : SortStep(c)
    \/ \E c \in Chan : \E i \in DOMAIN t[c] : FwdUnit(c, i)
    \/ \E c \in Chan : FwdEnd(c)
    \/ \E c \in Chan : \E k \in DOMAIN t_inv[c] : LutUnit(c, k)
    \/ \E c \in Chan : LutEnd(c)
    \/ JoinChannels
    \/ PanicChannels
    \/ ImgAlloc
    \/ \E i \in 0..(W * H - 1) : ImgChunk(i)
    \/ ImgEnd
    \/ LutAlloc
    \/ \E k \in 0..(W - 1) : LutChunk(k)
    \/ LutBufEnd

SpecPar == InitPar /\ [][NextPar]_vars

\* ------------------------------------------------------------------------
\* SpecFn: the closure and the loop bodies as functions of drawn arguments
\* ------------------------------------------------------------------------

\* The sample count of the large image.
ProbeN == ProbeW * ProbeH

\* The ranks of the large image that are observed: the ProbeSpan ranks on
\* either side of the median rank, and the two ranks at either end.
MedianRanks == (ProbeN \div 2 - ProbeSpan)..(ProbeN \div 2 + ProbeSpan)

EndRanks == {0, 1, ProbeN - 2, ProbeN - 1}

\* The LUT indices of the large image that are observed.
ProbeCols == {0, 1, ProbeW \div 2 - 1, ProbeW \div 2, ProbeW - 2}

\* The arguments: a channel of a w x h image with any intensities 0..FnVal;
\* two successive ranks of the large image; one rank of the large image; two
\* successive LUT indices of the large image.
FnInputs ==
    UNION { { [kind |-> "channel", width |-> d[1], inp |-> a] :
              a \in [0..(d[1] * d[2] - 1) -> 0..FnVal] } :
            d \in Dims(FnN) }
    \cup { [kind |-> "fwd", n |-> ProbeN, r1 |-> r, r2 |-> r + 1] :
           r \in MedianRanks }
    \cup { [kind |-> "rank", n |-> ProbeN, r1 |-> r] :
           r \in MedianRanks \cup EndRanks }
    \cup { [kind |-> "lut", width |-> ProbeW, n |-> ProbeN,
            k1 |-> k, k2 |-> k + 1] : k \in ProbeCols }

InitFn ==
    /\ W = 0
    /\ H = 0
    /\ input = << >>
    /\ pc = "fn"
    /\ inp = [c \in Chan |-> << >>]
    /\ t = [c \in Chan |-> << >>]
    /\ t_inv = [c \in Chan |-> << >>]
    /\ input_sorted = [c \in Chan |-> << >>]
    /\ input_orig_order = [c \in Chan |-> << >>]
    /\ index = [c \in Chan |-> << >>]
    /\ cpc = [c \in Chan |-> "idle"]
    /\ fwdDone = [c \in Chan |-> {}]
    /\ lutDone = [c \in Chan |-> {}]
    /\ out_img = << >>
    /\ lut = << >>
    /\ ipc = [f \in Files |-> "idle"]
    /\ imgDone = {}
    /\ lutChunks = {}
    /\ wpc = [f \in Files |-> "start"]
    /\ fs = [f \in Files |-> "absent"]
    /\ result = "none"
    /\ fnIn \in FnInputs
    /\ fnOut = NoFn

\* The closure of one channel.
ApplyChannel ==
    /\ pc = "fn"
    /\ fnIn.kind = "channel"
    /\ fnOut = NoFn
    /\ \E r \in ChannelRun(fnIn.inp, fnIn.width) :
          fnOut' = [kind |-> "channel", run |-> r]
    /\ UNCHANGED << W, H, input, pc, inp, t, t_inv, input_sorted,
                    input_orig_order, index, cpc, fwdDone, lutDone, out_img,
                    lut, ipc, imgDone, lutChunks, wpc, fs, result, fnIn >>

\* The body of the forward loop for two pixels of ranks r1 and r2.
ApplyForwardPair ==
    /\ pc = "fn"
    /\ fnIn.kind = "fwd"
    /\ fnOut = NoFn
    /\ fnOut' = [kind |-> "fwd",
                 g1 |-> ForwardCalc(fnIn.r1, fnIn.n),
                 g2 |-> ForwardCalc(fnIn.r2, fnIn.n)]
    /\ UNCHANGED << W, H, input, pc, inp, t, t_inv, input_sorted,
                    input_orig_order, index, cpc, fwdDone, lutDone, out_img,
                    lut, ipc, imgDone, lutChunks, wpc, fs, result, fnIn >>

\* The normalised rank of a pixel of rank r1, and the argument of inverf.
ApplyNormRank ==
    /\ pc = "fn"
    /\ fnIn.kind = "rank"
    /\ fnOut = NoFn
    /\ fnOut' = [kind |-> "rank",
                 u |-> NormRank(fnIn.r1, fnIn.n),
                 y |-> FSub(FMul(FTwo, NormRank(fnIn.r1, fnIn.n)), FOne)]
    /\ UNCHANGED << W, H, input, pc, inp, t, t_inv, input_sorted,
                    input_orig_order, index, cpc, fwdDone, lutDone, out_img,
                    lut, ipc, imgDone, lutChunks, wpc, fs, result, fnIn >>

\* The index of the LUT loop for the LUT positions k1 and k2.
ApplyLutIndex ==
    /\ pc = "fn"
    /\ fnIn.kind = "lut"
    /\ fnOut = NoFn
    /\ fnOut' = [kind |-> "lut",
                 index1 |-> LutIndex(fnIn.k1, fnIn.width, fnIn.n),
                 index2 |-> LutIndex(fnIn.k2, fnIn.width, fnIn.n)]
    /\ UNCHANGED << W, H, input, pc, inp, t, t_inv, input_sorted,
                    input_orig_order, index, cpc, fwdDone, lutDone, out_img,
                    lut, ipc, imgDone, lutChunks, wpc, fs, result, fnIn >>

NextFn ==
    \/ ApplyChannel
    \/ ApplyForwardPair
    \/ ApplyNormRank
    \/ ApplyLutIndex

SpecFn == InitFn /\ [][NextFn]_vars

\* ------------------------------------------------------------------------
\* Properties
\* ------------------------------------------------------------------------

\* RankMap: the sort_idx recorded for each original pixel index.
RankMap(o) == [i \in DOMAIN o |-> o[i].sort_idx]

\* ApplyChannel has run the closure on a channel of at least one sample.
ChannelDone == fnOut.kind = "channel" /\ VecLen(fnIn.inp) >= 1

\* C1: for a channel of N >= 1 samples and every LUT index k, the index
\* floor(u * N) that the LUT loop reads input_sorted at is at most N - 1, so
\* the read is in range and the closure does not panic.  The code has no
\* clamp: u <= cdf(1 - 0.5 / W) < 1 keeps floor(u * N) below N.
C1_IndexInRange ==
    /\ ChannelDone =>
          /\ ~fnOut.run.panic
          /\ \A k \in DOMAIN fnOut.run.index :
                fnOut.run.index[k] \in 0..(VecLen(fnIn.inp) - 1)
    /\ fnOut.kind = "lut" =>
          /\ fnOut.index1 \in 0..(fnIn.n - 1)
          /\ fnOut.index2 \in 0..(fnIn.n - 1)

\* The LUT loop has read the last element of input_sorted, of two at least.
C1_Witness ==
    /\ ChannelDone
    /\ VecLen(fnIn.inp) >= 2
    /\ \E k \in DOMAIN fnOut.run.index :
          fnOut.run.index[k] = VecLen(fnIn.inp) - 1

\* C2 (as the specification states it): when W = 0 or H = 0 the transform
\* does not panic.  The code panics for W > 0 and H = 0: the LUT loop reads
\* input_sorted[0] of an empty input_sorted.
C2_DegenerateCompletes ==
    (W = 0 \/ H = 0) => (pc # "panic" /\ \A c \in Chan : cpc[c] # "panic")

\* C3 (as the specification states it): two pixels i < j of equal intensity
\* have RankMap[i] < RankMap[j] and ForwardArray[i] < ForwardArray[j].  The
\* sort of the code is unstable: it may give the two pixels either order.
C3_TiesByIndex ==
    ChannelDone =>
       \A i, j \in DOMAIN fnIn.inp :
          (i < j /\ fnIn.inp[i] = fnIn.inp[j]) =>
             /\ RankMap(fnOut.run.input_orig_order)[i]
                  < RankMap(fnOut.run.input_orig_order)[j]
             /\ FLt(fnOut.run.t[i], fnOut.run.t[j])

\* C4: for a channel of N >= 1 samples, RankMap is a bijection of 0..N-1 and
\* the inverse of the sorted order: input_sorted[RankMap[i]] is the sample
\* of original index i, whatever order the sort gives to ties.
C4_RankMapInverse ==
    ChannelDone =>
       /\ DOMAIN fnOut.run.input_orig_order = 0..(VecLen(fnIn.inp) - 1)
       /\ { RankMap(fnOut.run.input_orig_order)[i] : i \in DOMAIN fnIn.inp }
            = 0..(VecLen(fnIn.inp) - 1)
       /\ \A i \in DOMAIN fnIn.inp :
             fnOut.run.input_sorted[RankMap(fnOut.run.input_orig_order)[i]]
               = <<i, fnIn.inp[i]>>

\* The sort has put two samples of equal intensity in the reverse of their
\* original order.
C4_Witness ==
    /\ ChannelDone
    /\ \E i, j \in DOMAIN fnIn.inp :
          /\ i < j
          /\ fnIn.inp[i] = fnIn.inp[j]
          /\ RankMap(fnOut.run.input_orig_order)[i]
               > RankMap(fnOut.run.input_orig_order)[j]

\* C5 (amended): for all pixels i, j of a channel with intensity[i] <
\* intensity[j], RankMap[i] < RankMap[j] and ForwardArray[i] <=
\* ForwardArray[j]; and two successive ranks of the large image give forward
\* values in the same order, which may be equal.
C5_OrderPreserved ==
    /\ ChannelDone =>
          \A i, j \in DOMAIN fnIn.inp :
             fnIn.inp[i] < fnIn.inp[j] =>
                /\ RankMap(fnOut.run.input_orig_order)[i]
                     < RankMap(fnOut.run.input_orig_order)[j]
                /\ FLe(fnOut.run.t[i], fnOut.run.t[j])
    /\ fnOut.kind = "fwd" => FLe(fnOut.g1, fnOut.g2)

\* The closure has run on a channel whose intensities fall somewhere: a
\* later pixel is darker than an earlier one.
C5_Witness ==
    /\ ChannelDone
    /\ \E i, j \in DOMAIN fnIn.inp : i > j /\ fnIn.inp[i] < fnIn.inp[j]

\* C5 (as the specification states it): intensity[i] < intensity[j] gives
\* ForwardArray[i] < ForwardArray[j], strictly.  `as f32` rounds the forward
\* values of successive ranks of the large image to the same f32.
C5_StrictForward ==
    /\ ChannelDone =>
          \A i, j \in DOMAIN fnIn.inp :
             fnIn.inp[i] < fnIn.inp[j] =>
                /\ RankMap(fnOut.run.input_orig_order)[i]
                     < RankMap(fnOut.run.input_orig_order)[j]
                /\ FLt(fnOut.run.t[i], fnOut.run.t[j])
    /\ fnOut.kind = "fwd" => FLt(fnOut.g1, fnOut.g2)

\* C6: the inverse LUT of a channel does not decrease: t_inv[k1] <=
\* t_inv[k2] for all k1 < k2; and the indices read for two successive LUT
\* positions of the large image do not decrease.
C6_LutMonotone ==
    /\ (ChannelDone /\ ~fnOut.run.panic) =>
          \A k1, k2 \in DOMAIN fnOut.run.t_inv :
             k1 < k2 => fnOut.run.t_inv[k1] <= fnOut.run.t_inv[k2]
    /\ fnOut.kind = "lut" => fnOut.index1 <= fnOut.index2

\* A LUT of two entries at least that rises from its first to its last.
C6_Witness ==
    /\ ChannelDone
    /\ fnIn.width >= 2
    /\ fnOut.run.t_inv[0] < fnOut.run.t_inv[fnIn.width - 1]

\* C7 (as the specification states it): when _main returns an error, neither
\* output file exists.  The code removes nothing: the file of the write that
\* succeeded, and the file a failed encoder leaves, both stay.
C7_AllOrNothing ==
    (pc = "exit" /\ result = "err") => \A f \in Files : fs[f] = "absent"

\* C8: out_img has length 3 * W * H with out_img[3 i + c] = t_c[i], and lut
\* has length 3 * W with lut[3 k + c] = t_inv_c[k], for c = 0 (R), 1 (G),
\* 2 (B).
C8_Interleaved ==
    /\ (pc = "interleave" /\ ipc["img"] = "done") =>
          /\ DOMAIN out_img = 0..(3 * W * H - 1)
          /\ \A i \in 0..(W * H - 1) :
                \A c \in Chan : out_img[3 * i + c] = t[c][i]
    /\ (pc = "interleave" /\ ipc["lut"] = "done") =>
          /\ DOMAIN lut = 0..(3 * W - 1)
          /\ \A k \in 0..(W - 1) :
                \A c \in Chan : lut[3 * k + c] = t_inv[c][k]

\* Both buffers are interleaved, of an image two pixels wide at least whose
\* red and green channels differ.
C8_Witness ==
    /\ pc = "interleave"
    /\ \A f \in Files : ipc[f] = "done"
    /\ W >= 2
    /\ t[0] # t[1]
    /\ t_inv[0] # t_inv[1]

\* A step writes only the slot of the unit that runs in it: a slot of t,
\* t_inv, out_img or lut changes only as its own unit joins the units done.
OwnSlotsOnly ==
    /\ \A c \in Chan :
          pc = "channels" =>
             /\ \A i \in DOMAIN t[c] :
                   t'[c][i] # t[c][i] => fwdDone'[c] \ fwdDone[c] = {i}
             /\ \A k \in DOMAIN t_inv[c] :
                   t_inv'[c][k] # t_inv[c][k] =>
                      lutDone'[c] \ lutDone[c] = {k}
    /\ ipc["img"] = "run" =>
          \A i \in 0..(W * H - 1) :
             (\E c \in Chan : out_img'[3 * i + c] # out_img[3 * i + c]) =>
                imgDone' \ imgDone = {i}
    /\ ipc["lut"] = "run" =>
          \A k \in 0..(W - 1) :
             (\E c \in Chan : lut'[3 * k + c] # lut[3 * k + c]) =>
                lutChunks' \ lutChunks = {k}

\* What the units read is not written while they run: W, H and the image
\* never; the two sorted arrays of a channel not once they are built; t and
\* t_inv not while the interleaving closures run.
SharedStable ==
    /\ W' = W /\ H' = H /\ input' = input
    /\ \A c \in Chan :
          (cpc[c] # "idle" /\ pc' \in {"channels", "interleave"}) =>
             /\ input_sorted'[c] = input_sorted[c]
             /\ input_orig_order'[c] = input_orig_order[c]
    /\ (pc = "interleave" /\ pc' = "interleave") =>
          (t' = t /\ t_inv' = t_inv)

\* The buffers that the sort result alone determines.
ExpectedImg ==
    ChunkLoop(Filled(W * H * 3, FZero), W * H,
        [c \in Chan |-> [i \in 0..(W * H - 1) |->
            Forward(input_orig_order[c][i].sort_idx, W * H)]])

ExpectedLut ==
    ChunkLoop(Filled(W * 3, 0), W,
        [c \in Chan |-> [k \in 0..(W - 1) |->
            input_sorted[c][LutIndex(k, W, W * H)][2]]])

\* C9: every unit of the parallel loops writes its own slots only, what the
\* units read is not written while they run, and so the two buffers are, in
\* every interleaving of the units, the ones the sort result determines.
C9_DisjointWrites ==
    /\ [][OwnSlotsOnly /\ SharedStable]_vars
    /\ []((pc = "interleave" /\ \A f \in Files : ipc[f] = "done") =>
            (out_img = ExpectedImg /\ lut = ExpectedLut))

\* Two closures are in the middle of their loops at once: one has run some
\* units of its forward loop, another some units of its LUT loop.
C9_Witness ==
    /\ pc = "channels"
    /\ \E c1, c2 \in Chan :
          /\ c1 # c2
          /\ cpc[c1] = "forward"
          /\ fwdDone[c1] \notin {{}, DOMAIN t[c1]}
          /\ cpc[c2] = "lut"
          /\ lutDone[c2] \notin {{}, DOMAIN t_inv[c2]}

\* C10: for N >= 1 and every pixel, 0 < 2 * RankMap[i] + 1 < 2 * N, the
\* normalised rank u is strictly inside (0,1) and 2u - 1 strictly inside
\* (-1,1); for N = 1 the rank is 0, u is 0.5 and ForwardArray[0] is mu.
C10_RankInside ==
    /\ ChannelDone =>
          /\ \A i \in DOMAIN fnIn.inp :
                /\ 0 < 2 * RankMap(fnOut.run.input_orig_order)[i] + 1
                /\ 2 * RankMap(fnOut.run.input_orig_order)[i] + 1
                     < 2 * VecLen(fnIn.inp)
                /\ FLt(FZero, fnOut.run.u[i])
                /\ FLt(fnOut.run.u[i], FOne)
                /\ FLt(FNeg(FOne), FSub(FMul(FTwo, fnOut.run.u[i]), FOne))
                /\ FLt(FSub(FMul(FTwo, fnOut.run.u[i]), FOne), FOne)
          /\ VecLen(fnIn.inp) = 1 =>
                /\ RankMap(fnOut.run.input_orig_order)[0] = 0
                /\ fnOut.run.u[0] = FHalf
                /\ fnOut.run.t[0] = GAUSSIAN_AVERAGE
    /\ fnOut.kind = "rank" =>
          /\ FLt(FZero, fnOut.u) /\ FLt(fnOut.u, FOne)
          /\ FLt(FNeg(FOne), fnOut.y) /\ FLt(fnOut.y, FOne)

\* The closure has run on a channel of one sample.
C10_Witness ==
    /\ ChannelDone
    /\ VecLen(fnIn.inp) = 1
    /\ fnOut.run.t[0] = GAUSSIAN_AVERAGE
====
